---- MODULE Spec2Model ----
(***************************************************************************)
(* A model of src/types.rs of Blades: the Content implementations of       *)
(* Ancestors (path segments), Any (dynamic TOML value) and DateTime, the   *)
(* DateTime deserializer and the Templates registry.                       *)
(*                                                                         *)
(* Text is a sequence of one-character strings, offsets are the byte       *)
(* offsets of the Rust code (all modelled characters are ASCII, one byte   *)
(* each).  An Encoder is modelled by the log of the calls made on it; a    *)
(* sink either never fails or fails at its failAt-th call.                 *)
(***************************************************************************)
EXTENDS Integers, Sequences, FiniteSets, TLC

VARIABLES kind, self, pc, op, args, ret, enc

vars == <<kind, self, pc, op, args, ret, enc>>

(***************************************************************************)
(* Bounds of the model.                                                    *)
(***************************************************************************)
MaxPathLen == 5
MaxListLen == 2
MaxFailAt == 3

(***************************************************************************)
(* Text helpers.                                                           *)
(***************************************************************************)
\* &s[from..to] with 0-based byte offsets, `to` exclusive.
Slice(s, from, to) == SubSeq(s, from + 1, to)

TextsUpTo(chars, n) == UNION {[1..k -> chars] : k \in 0..n}

IsDigit(c) == c \in {"0", "1", "2", "3", "4", "5", "6", "7", "8", "9"}

DigitValue(c) ==
    CASE c = "0" -> 0 [] c = "1" -> 1 [] c = "2" -> 2 [] c = "3" -> 3 [] c = "4" -> 4
      [] c = "5" -> 5 [] c = "6" -> 6 [] c = "7" -> 7 [] c = "8" -> 8 [] c = "9" -> 9

\* The number a text of decimal digits denotes.
RECURSIVE TextValue(_)
TextValue(t) ==
    IF t = <<>> THEN 0
    ELSE 10 * TextValue(SubSeq(t, 1, Len(t) - 1)) + DigitValue(t[Len(t)])

\* std::path::is_separator on a Unix build: '/' alone.
is_separator(c) == c = "/"

\* str::contains(is_separator)
contains_separator(s) == \E i \in 1..Len(s) : is_separator(s[i])

(***************************************************************************)
(* The Encoder (ramhorns::encoding::Encoder) as seen from this file: the   *)
(* calls made on it, in order.  A call is accepted unless it is the        *)
(* failAt-th call on a sink with failAt > 0; the failed call is logged     *)
(* with ok = FALSE and the encoder carries the error.                      *)
(***************************************************************************)
NewEncoder(failAt) == [failAt |-> failAt, log |-> <<>>, err |-> FALSE]

EncoderCall(e, call, data) ==
    LET fails == e.failAt > 0 /\ Len(e.log) + 1 >= e.failAt
    IN  [e EXCEPT !.log = Append(e.log, [call |-> call, data |-> data, ok |-> ~fails]),
                  !.err = fails]

write_escaped(e, s) == EncoderCall(e, "write_escaped", s)
write_unescaped(e, s) == EncoderCall(e, "write_unescaped", s)

\* Section::with(content): the section with content pushed on its context stack.
SectionWith(section, content) == Append(section, content)

\* Section::render(encoder): renders the section body against the context
\* stack; the body's output goes to the encoder.
SectionRender(section, e) == EncoderCall(e, "render", section)

(***************************************************************************)
(* impl Content for Ancestors                                              *)
(***************************************************************************)
Segment(name, full) == [name |-> name, full |-> full]

Ancestors_is_truthy(s) == s # <<>>

\* A faulty variant: the text is written without the leading separator.
Ancestors_render_escaped_bare(s, e) == IF s # <<>> THEN write_escaped(e, s) ELSE e

Ancestors_render_escaped(s, e) ==
    IF s # <<>>
    THEN LET e1 == write_unescaped(e, <<"/">>)
         IN  IF e1.err THEN e1 ELSE write_escaped(e1, s)
    ELSE e

\* A faulty variant: the text is written whatever became of the separator.
Ancestors_render_unescaped_unchecked(s, e) ==
    IF s # <<>> THEN write_unescaped(write_unescaped(e, <<"/">>), s) ELSE e

Ancestors_render_unescaped(s, e) ==
    IF s # <<>>
    THEN LET e1 == write_unescaped(e, <<"/">>)
         IN  IF e1.err THEN e1 ELSE write_unescaped(e1, s)
    ELSE e

\* The iteration the loop body renders for the separator at offset i.
AncestorsSegmentAt(s, previous, i) == Segment(Slice(s, previous, i), Slice(s, 0, i))

\* for (i, sep) in s.match_indices(is_separator) { ...; previous = i + sep.len() }
RECURSIVE AncestorsScan(_, _, _, _, _)
AncestorsScan(s, i, previous, section, e) ==
    IF i >= Len(s) THEN e
    ELSE IF is_separator(s[i + 1])
         THEN LET e1 == SectionRender(SectionWith(section, AncestorsSegmentAt(s, previous, i)), e)
              IN  IF e1.err THEN e1 ELSE AncestorsScan(s, i + 1, i + 1, section, e1)
         ELSE AncestorsScan(s, i + 1, previous, section, e)

\* A faulty variant: the whole text is rendered as a last segment for every text.
AncestorsTail_always(s, section, e) == SectionRender(SectionWith(section, Segment(s, s)), e)

\* The segment rendered after the loop, when the text holds no separator.
AncestorsTail(s, section, e) ==
    IF ~contains_separator(s)
    THEN SectionRender(SectionWith(section, Segment(s, s)), e)
    ELSE e

Ancestors_render_section(s, section, e) ==
    IF s = <<>> THEN e
    ELSE LET e1 == AncestorsScan(s, 0, 0, section, e)
         IN  IF e1.err THEN e1 ELSE AncestorsTail(s, section, e1)

\* Result<(), E::Error> of a render operation.
UnitResult(e) == IF e.err THEN [tag |-> "Err"] ELSE [tag |-> "Ok"]

\* Result<bool, E::Error> of a field lookup.
FoundResult(r) ==
    IF r.enc.err THEN [tag |-> "Err"] ELSE [tag |-> "Ok", found |-> r.found]

(***************************************************************************)
(* enum Any: Number(f64), String, DateTime, List(Vec<Any>), Map(HashMap).  *)
(* A value is a record with its variant in tag.  Numbers are the integral  *)
(* f64 values, a map is a function from its keys to values.                *)
(***************************************************************************)
Number(n) == [tag |-> "Number", num |-> n]
String(s) == [tag |-> "String", str |-> s]
DateTimeValue(d) == [tag |-> "DateTime", dt |-> d]
List(vec) == [tag |-> "List", vec |-> vec]
Map(m) == [tag |-> "Map", map |-> m]

\* Decimal digits of a natural number, as text.
RECURSIVE Decimal(_)
Decimal(n) ==
    LET digit == <<"0", "1", "2", "3", "4", "5", "6", "7", "8", "9">>[(n % 10) + 1]
    IN  IF n < 10 THEN <<digit>> ELSE Append(Decimal(n \div 10), digit)

\* Display of an integer (i32, u32, integral f64).
DisplayInt(n) == IF n < 0 THEN <<"-">> \o Decimal(-n) ELSE Decimal(n)

\* A faulty variant: a non-zero number and a non-empty string are truthy too.
Any_is_truthy_conventional(v) ==
    CASE v.tag = "List" -> v.vec # <<>>
      [] v.tag = "Map" -> DOMAIN v.map # {}
      [] v.tag = "Number" -> v.num # 0
      [] v.tag = "String" -> v.str # <<>>
      [] OTHER -> FALSE

Any_is_truthy(v) ==
    CASE v.tag = "List" -> v.vec # <<>>
      [] v.tag = "Map" -> DOMAIN v.map # {}
      [] OTHER -> FALSE

\* Number, String: the contained value's own rendering (a number writes its
\* Display text unescaped, a string writes its text); DateTime, List and Map
\* keep Content's default direct rendering, which writes nothing.
Any_render_escaped(v, e) ==
    CASE v.tag = "Number" -> write_unescaped(e, DisplayInt(v.num))
      [] v.tag = "String" -> write_escaped(e, v.str)
      [] OTHER -> e

Any_render_unescaped(v, e) ==
    CASE v.tag = "Number" -> write_unescaped(e, DisplayInt(v.num))
      [] v.tag = "String" -> write_unescaped(e, v.str)
      [] OTHER -> e

\* HashMap::render_section: section.with(self).render(encoder) when non-empty.
HashMap_render_section(v, section, e) ==
    IF DOMAIN v.map # {} THEN SectionRender(SectionWith(section, v), e) ELSE e

\* The section of a Number, a String or a DateTime: the body, once, against
\* the section's own context stack.
\* A faulty variant: the scalar is pushed as the nested context.
Scalar_render_section_pushed(v, section, e) == SectionRender(SectionWith(section, v), e)

Scalar_render_section(v, section, e) == SectionRender(section, e)

\* Vec::render_section: for item in self { item.render_section(section, encoder)?; }
RECURSIVE Any_render_section(_, _, _)
RECURSIVE Vec_render_section(_, _, _, _)
Vec_render_section(vec, k, section, e) ==
    IF k > Len(vec) THEN e
    ELSE LET e1 == Any_render_section(vec[k], section, e)
         IN  IF e1.err THEN e1 ELSE Vec_render_section(vec, k + 1, section, e1)

Any_render_section(v, section, e) ==
    CASE v.tag = "List" -> Vec_render_section(v.vec, 1, section, e)
      [] v.tag = "Map" -> HashMap_render_section(v, section, e)
      [] OTHER -> Scalar_render_section(v, section, e)

\* Content::render_inverse (not overridden by Any): the body when not truthy.
Any_render_inverse(v, section, e) ==
    IF ~Any_is_truthy(v) THEN SectionRender(section, e) ELSE e

NotFound(e) == [found |-> FALSE, enc |-> e]
Found(e) == [found |-> TRUE, enc |-> e]

\* HashMap::render_field_*: match self.get(name) { Some(v) => v.render_*(..).map(|_| true),
\* None => Ok(false) }
HashMap_render_field_escaped(m, name, e) ==
    IF name \in DOMAIN m THEN Found(Any_render_escaped(m[name], e)) ELSE NotFound(e)

HashMap_render_field_unescaped(m, name, e) ==
    IF name \in DOMAIN m THEN Found(Any_render_unescaped(m[name], e)) ELSE NotFound(e)

HashMap_render_field_section(m, name, section, e) ==
    IF name \in DOMAIN m THEN Found(Any_render_section(m[name], section, e)) ELSE NotFound(e)

HashMap_render_field_inverse(m, name, section, e) ==
    IF name \in DOMAIN m THEN Found(Any_render_inverse(m[name], section, e)) ELSE NotFound(e)

Any_render_field_escaped(v, name, e) ==
    IF v.tag = "Map" THEN HashMap_render_field_escaped(v.map, name, e) ELSE NotFound(e)

Any_render_field_unescaped(v, name, e) ==
    IF v.tag = "Map" THEN HashMap_render_field_unescaped(v.map, name, e) ELSE NotFound(e)

\* A faulty variant: a value that is no Map resolves every name to empty output.
Any_render_field_section_empty(v, name, section, e) ==
    IF v.tag = "Map" THEN HashMap_render_field_section(v.map, name, section, e)
    ELSE Found(e)

Any_render_field_section(v, name, section, e) ==
    IF v.tag = "Map" THEN HashMap_render_field_section(v.map, name, section, e)
    ELSE NotFound(e)

Any_render_field_inverse(v, name, section, e) ==
    IF v.tag = "Map" THEN HashMap_render_field_inverse(v.map, name, section, e)
    ELSE NotFound(e)

(***************************************************************************)
(* struct DateTime(NaiveDateTime): a record of the calendar fields; nano   *)
(* is chrono's nanosecond, 10^9 or more during a leap second.              *)
(***************************************************************************)
\* The sample date: 2020-03-05T07:08:09.
SampleDate ==
    [year |-> 2020, month |-> 3, day |-> 5, hour |-> 7, minute |-> 8, second |-> 9,
     nano |-> 0]

IsLeapYear(y) == (y % 4 = 0 /\ y % 100 # 0) \/ y % 400 = 0

DaysInMonth(y, m) ==
    IF m = 2 THEN (IF IsLeapYear(y) THEN 29 ELSE 28)
    ELSE IF m \in {4, 6, 9, 11} THEN 30 ELSE 31

\* Days from 1970-01-01 to the date (proleptic Gregorian calendar).
DaysFromCivil(y, m, d) ==
    LET yy == IF m <= 2 THEN y - 1 ELSE y
        era == yy \div 400
        yoe == yy - era * 400
        mp == IF m > 2 THEN m - 3 ELSE m + 9
        doy == (153 * mp + 2) \div 5 + d - 1
        doe == yoe * 365 + yoe \div 4 - yoe \div 100 + doy
    IN  era * 146097 + doe - 719468

\* Datelike::year, month, month0, day; Timelike::hour, minute, second.
year(dt) == dt.year
month(dt) == dt.month
month0(dt) == dt.month - 1
day(dt) == dt.day
hour(dt) == dt.hour
minute(dt) == dt.minute
second(dt) == dt.second

\* self.0.weekday().num_days_from_sunday(): 1970-01-01 was a Thursday.
num_days_from_sunday(dt) == (DaysFromCivil(dt.year, dt.month, dt.day) + 4) % 7

WEEKDAYS == <<<<"S", "u", "n">>, <<"M", "o", "n">>, <<"T", "u", "e">>, <<"W", "e", "d">>, <<"T", "h", "u">>, <<"F", "r", "i">>, <<"S", "a", "t">>>>

MONTHS ==
    <<<<"J", "a", "n">>, <<"F", "e", "b">>, <<"M", "a", "r">>, <<"A", "p", "r">>, <<"M", "a", "y">>, <<"J", "u", "n">>,
      <<"J", "u", "l">>, <<"A", "u", "g">>, <<"S", "e", "p">>, <<"O", "c", "t">>, <<"N", "o", "v">>, <<"D", "e", "c">>>>

NUMS ==
    <<<<"0", "0">>, <<"0", "1">>, <<"0", "2">>, <<"0", "3">>, <<"0", "4">>, <<"0", "5">>,
     <<"0", "6">>, <<"0", "7">>, <<"0", "8">>, <<"0", "9">>, <<"1", "0">>, <<"1", "1">>,
     <<"1", "2">>, <<"1", "3">>, <<"1", "4">>, <<"1", "5">>, <<"1", "6">>, <<"1", "7">>,
     <<"1", "8">>, <<"1", "9">>, <<"2", "0">>, <<"2", "1">>, <<"2", "2">>, <<"2", "3">>,
     <<"2", "4">>, <<"2", "5">>, <<"2", "6">>, <<"2", "7">>, <<"2", "8">>, <<"2", "9">>,
     <<"3", "0">>, <<"3", "1">>, <<"3", "2">>, <<"3", "3">>, <<"3", "4">>, <<"3", "5">>,
     <<"3", "6">>, <<"3", "7">>, <<"3", "8">>, <<"3", "9">>, <<"4", "0">>, <<"4", "1">>,
     <<"4", "2">>, <<"4", "3">>, <<"4", "4">>, <<"4", "5">>, <<"4", "6">>, <<"4", "7">>,
     <<"4", "8">>, <<"4", "9">>, <<"5", "0">>, <<"5", "1">>, <<"5", "2">>, <<"5", "3">>,
     <<"5", "4">>, <<"5", "5">>, <<"5", "6">>, <<"5", "7">>, <<"5", "8">>, <<"5", "9">>>>

\* table[i] of a Rust array: a panic when i is out of bounds.
Indexed(table, i) ==
    IF i >= 0 /\ i < Len(table) THEN [ok |-> TRUE, text |-> table[i + 1]]
    ELSE [ok |-> FALSE, text |-> <<>>]

DateNotFound(e) == [found |-> FALSE, enc |-> e, panic |-> FALSE]
DateFound(e) == [found |-> TRUE, enc |-> e, panic |-> FALSE]

\* enc.write_unescaped(TABLE[i]).map(|_| true)
WriteIndexed(table, i, e) ==
    LET x == Indexed(table, i)
    IN  IF x.ok THEN DateFound(write_unescaped(e, x.text))
        ELSE [found |-> FALSE, enc |-> e, panic |-> TRUE]

\* Result<bool, E::Error> of a DateTime field lookup, or the panic of an
\* out-of-bounds index.
DateFoundResult(r) ==
    IF r.panic THEN [tag |-> "Panic"]
    ELSE IF r.enc.err THEN [tag |-> "Err"] ELSE [tag |-> "Ok", found |-> r.found]

\* A faulty variant: the month abbreviation is indexed by the 1-based month.
MonthNameIndex_month(dt) == month(dt)

\* The table index of the month abbreviation.
MonthNameIndex(dt) == month0(dt)

\* The table index of the weekday abbreviation.
WeekdayNameIndex(dt) == num_days_from_sunday(dt)

DateTime_render_section(dt, section, e) == SectionRender(SectionWith(section, dt), e)

DateTime_render_field_escaped(dt, name, e) ==
    IF Len(name) # 1 THEN DateNotFound(e)
    ELSE CASE name[1] = "y" -> DateFound(write_unescaped(e, DisplayInt(year(dt))))
           [] name[1] = "m" -> WriteIndexed(NUMS, month(dt), e)
           [] name[1] = "d" -> WriteIndexed(NUMS, day(dt), e)
           [] name[1] = "e" -> DateFound(write_unescaped(e, DisplayInt(day(dt))))
           [] name[1] = "H" -> WriteIndexed(NUMS, hour(dt), e)
           [] name[1] = "M" -> WriteIndexed(NUMS, minute(dt), e)
           [] name[1] = "S" -> WriteIndexed(NUMS, second(dt), e)
           [] name[1] = "a" -> WriteIndexed(WEEKDAYS, WeekdayNameIndex(dt), e)
           [] name[1] = "b" -> WriteIndexed(MONTHS, MonthNameIndex(dt), e)
           [] OTHER -> DateNotFound(e)

DateTime_render_field_unescaped(dt, name, e) == DateTime_render_field_escaped(dt, name, e)

(***************************************************************************)
(* Parsing of the TOML datetime text (DateTimeVisitor::visit_map).  The    *)
(* four formats are chrono item lists, interpreted left to right over the  *)
(* text; a format accepts when every item matches, the whole text is       *)
(* consumed and the fields form a valid date and time.  Years are unsigned.*)
(***************************************************************************)
NumItem(field, max) == [kind |-> "Num", field |-> field, max |-> max]
LitItem(c) == [kind |-> "Lit", c |-> c]
SpaceItem == [kind |-> "Space"]
NanoItem == [kind |-> "Nano"]
OffsetItem == [kind |-> "Offset"]

DateItems(sp) ==
    <<NumItem("year", 4)>> \o sp \o <<LitItem("-"), NumItem("month", 2)>> \o sp \o
    <<LitItem("-"), NumItem("day", 2)>>

TimeItems(sp) ==
    <<NumItem("hour", 2)>> \o sp \o <<LitItem(":"), NumItem("minute", 2)>> \o sp \o
    <<LitItem(":"), NumItem("second", 2), NanoItem>>

\* <NaiveDateTime as FromStr>: %Y-%m-%dT%H:%M:%S%.f
NaiveDateTimeItems ==
    DateItems(<<SpaceItem>>) \o <<SpaceItem, LitItem("T")>> \o TimeItems(<<SpaceItem>>) \o
    <<SpaceItem>>

\* <NaiveDate as FromStr>: %Y-%m-%d
NaiveDateItems == DateItems(<<SpaceItem>>) \o <<SpaceItem>>

\* "%F %T%.f"
SpaceSeparatedItems == DateItems(<<>>) \o <<SpaceItem>> \o TimeItems(<<>>)

\* <DateTime<FixedOffset> as FromStr>: %Y-%m-%dT%H:%M:%S%.f%:z
OffsetDateTimeItems ==
    DateItems(<<SpaceItem>>) \o <<SpaceItem, LitItem("T")>> \o TimeItems(<<SpaceItem>>) \o
    <<SpaceItem, OffsetItem, SpaceItem>>

NoFields ==
    [year |-> -1, month |-> -1, day |-> -1, hour |-> -1, minute |-> -1, second |-> -1,
     nano |-> 0, offset |-> 0, hasOffset |-> FALSE]

\* The number of decimal digits at offset pos (1-based) of s, at most max.
DigitsAt(s, pos, max) ==
    CHOOSE k \in 0..max :
        /\ \A i \in 0..(k - 1) : pos + i <= Len(s) /\ IsDigit(s[pos + i])
        /\ (k = max \/ pos + k > Len(s) \/ ~IsDigit(s[pos + k]))

\* The number of white-space characters at offset pos of s.
SpacesAt(s, pos) ==
    CHOOSE k \in 0..(Len(s) + 1 - pos) :
        /\ \A i \in 0..(k - 1) : s[pos + i] = " "
        /\ (pos + k > Len(s) \/ s[pos + k] # " ")

Pow10(n) == [i \in 0..9 |-> IF i = 0 THEN 1 ELSE IF i = 1 THEN 10 ELSE IF i = 2 THEN 100
             ELSE IF i = 3 THEN 1000 ELSE IF i = 4 THEN 10000 ELSE IF i = 5 THEN 100000
             ELSE IF i = 6 THEN 1000000 ELSE IF i = 7 THEN 10000000
             ELSE IF i = 8 THEN 100000000 ELSE 1000000000][n]

Failed == [ok |-> FALSE, pos |-> 0, fields |-> NoFields]

\* One item matched at pos: [ok, pos, fields].
ParseItem(s, pos, item, fields) ==
    CASE item.kind = "Num" ->
            LET k == DigitsAt(s, pos, item.max)
            IN  IF k < 1 THEN Failed
                ELSE [ok |-> TRUE, pos |-> pos + k,
                      fields |-> [fields EXCEPT
                                    ![item.field] = TextValue(SubSeq(s, pos, pos + k - 1))]]
      [] item.kind = "Lit" ->
            IF pos <= Len(s) /\ s[pos] = item.c
            THEN [ok |-> TRUE, pos |-> pos + 1, fields |-> fields]
            ELSE Failed
      [] item.kind = "Space" ->
            [ok |-> TRUE, pos |-> pos + SpacesAt(s, pos), fields |-> fields]
      [] item.kind = "Nano" ->
            IF pos <= Len(s) /\ s[pos] = "."
            THEN LET k == DigitsAt(s, pos + 1, 9)
                 IN  IF k < 1 THEN Failed
                     ELSE [ok |-> TRUE, pos |-> pos + 1 + k,
                           fields |-> [fields EXCEPT
                                         !.nano = TextValue(SubSeq(s, pos + 1, pos + k))
                                                  * Pow10(9 - k)]]
            ELSE [ok |-> TRUE, pos |-> pos, fields |-> fields]
      [] item.kind = "Offset" ->
            IF pos <= Len(s) /\ s[pos] = "Z"
            THEN [ok |-> TRUE, pos |-> pos + 1,
                  fields |-> [fields EXCEPT !.offset = 0, !.hasOffset = TRUE]]
            ELSE IF /\ pos + 5 <= Len(s)
                    /\ s[pos] \in {"+", "-"}
                    /\ DigitsAt(s, pos + 1, 2) = 2
                    /\ s[pos + 3] = ":"
                    /\ DigitsAt(s, pos + 4, 2) = 2
                    /\ TextValue(SubSeq(s, pos + 4, pos + 5)) < 60
                 THEN LET secs == TextValue(SubSeq(s, pos + 1, pos + 2)) * 3600
                                  + TextValue(SubSeq(s, pos + 4, pos + 5)) * 60
                      IN  [ok |-> TRUE, pos |-> pos + 6,
                           fields |-> [fields EXCEPT
                                         !.offset = IF s[pos] = "-" THEN -secs ELSE secs,
                                         !.hasOffset = TRUE]]
                 ELSE Failed

RECURSIVE ParseItems(_, _, _, _, _)
ParseItems(s, pos, items, k, fields) ==
    IF k > Len(items)
    THEN (IF pos = Len(s) + 1 THEN [ok |-> TRUE, pos |-> pos, fields |-> fields] ELSE Failed)
    ELSE LET r == ParseItem(s, pos, items[k], fields)
         IN  IF r.ok THEN ParseItems(s, r.pos, items, k + 1, r.fields) ELSE Failed

ValidDate(f) ==
    /\ f.year >= 0
    /\ f.month \in 1..12
    /\ f.day >= 1 /\ f.day <= DaysInMonth(f.year, f.month)

\* A second of 60 is a leap second: second 59 with 10^9 added to nano.
ValidTime(f) == f.hour \in 0..23 /\ f.minute \in 0..59 /\ f.second \in 0..60

NaiveDateTimeOf(f) ==
    [year |-> f.year, month |-> f.month, day |-> f.day, hour |-> f.hour,
     minute |-> f.minute,
     second |-> IF f.second = 60 THEN 59 ELSE f.second,
     nano |-> IF f.second = 60 THEN 1000000000 + f.nano ELSE f.nano]

\* The date of a number of days from 1970-01-01.
CivilFromDays(z0) ==
    LET z == z0 + 719468
        era == z \div 146097
        doe == z - era * 146097
        yoe == (doe - doe \div 1460 + doe \div 36524 - doe \div 146096) \div 365
        doy == doe - (365 * yoe + yoe \div 4 - yoe \div 100)
        mp == (5 * doy + 2) \div 153
        d == doy - (153 * mp + 2) \div 5 + 1
        m == IF mp < 10 THEN mp + 3 ELSE mp - 9
        y == yoe + era * 400
    IN  [year |-> IF m <= 2 THEN y + 1 ELSE y, month |-> m, day |-> d]

\* NaiveDateTime + a whole number of seconds (add_with_leapsecond: the
\* nanosecond, a leap second included, is set aside and put back).
AddSeconds(dt, rhs) ==
    LET total == dt.hour * 3600 + dt.minute * 60 + dt.second + rhs
        sod == total % 86400
        date == CivilFromDays(DaysFromCivil(dt.year, dt.month, dt.day) + total \div 86400)
    IN  [year |-> date.year, month |-> date.month, day |-> date.day,
         hour |-> sod \div 3600, minute |-> (sod % 3600) \div 60, second |-> sod % 60,
         nano |-> dt.nano]

Parsed(dt) == [ok |-> TRUE, value |-> dt]
\* No value: the value field is a placeholder that is never read.
Unparsed == [ok |-> FALSE, value |-> SampleDate]

\* v.parse::<NaiveDateTime>()
ParseNaiveDateTime(v) ==
    LET r == ParseItems(v, 1, NaiveDateTimeItems, 1, NoFields)
    IN  IF r.ok /\ ValidDate(r.fields) /\ ValidTime(r.fields)
        THEN Parsed(NaiveDateTimeOf(r.fields)) ELSE Unparsed

\* v.parse::<NaiveDate>().map(|d| d.and_hms(0, 0, 0))
ParseNaiveDate(v) ==
    LET r == ParseItems(v, 1, NaiveDateItems, 1, NoFields)
    IN  IF r.ok /\ ValidDate(r.fields)
        THEN Parsed(NaiveDateTimeOf([r.fields EXCEPT !.hour = 0, !.minute = 0,
                                                     !.second = 0]))
        ELSE Unparsed

\* NaiveDateTime::parse_from_str(v, "%F %T%.f")
ParseSpaceSeparated(v) ==
    LET r == ParseItems(v, 1, SpaceSeparatedItems, 1, NoFields)
    IN  IF r.ok /\ ValidDate(r.fields) /\ ValidTime(r.fields)
        THEN Parsed(NaiveDateTimeOf(r.fields)) ELSE Unparsed

\* A faulty variant: the offset is dropped without converting the instant to UTC.
naive_utc_local(local, offset) == local

\* DateTime::naive_utc: the local date and time less the offset.
naive_utc(local, offset) == AddSeconds(local, -offset)

\* v.parse::<CDateTime<FixedOffset>>().map(|d| d.naive_utc())
ParseWithOffset(v) ==
    LET r == ParseItems(v, 1, OffsetDateTimeItems, 1, NoFields)
    IN  IF r.ok /\ ValidDate(r.fields) /\ ValidTime(r.fields)
        THEN Parsed(naive_utc(NaiveDateTimeOf(r.fields), r.fields.offset))
        ELSE Unparsed

\* a.or_else(|_| b)
OrElse(a, b) == IF a.ok THEN a ELSE b

KeyNotFoundMessage == <<"d", "a", "t", "e", "t", "i", "m", "e", " ", "k", "e", "y", " ", "n", "o", "t", " ", "f", "o", "u", "n", "d">>

UnableToParsePrefix ==
    <<"u", "n", "a", "b", "l", "e", " ", "t", "o", " ", "p", "a", "r", "s", "e", " ", "d", "a", "t", "e", " ", "a", "n", "d", " ", "t", "i", "m", "e", " ", "f", "r", "o", "m", " ">>

\* format!("unable to parse date and time from {}", v)
UnableToParseMessage(v) == UnableToParsePrefix \o v

\* The chain of the four formats.
ParseChain(v) ==
    OrElse(OrElse(OrElse(ParseNaiveDateTime(v), ParseNaiveDate(v)),
                  ParseSpaceSeparated(v)),
           ParseWithOffset(v))

visit_map(key, v) ==
    IF ~key THEN [tag |-> "Err", message |-> KeyNotFoundMessage]
    ELSE LET r == ParseChain(v)
         IN  IF r.ok THEN [tag |-> "Ok", value |-> r.value]
             ELSE [tag |-> "Err", message |-> UnableToParseMessage(v)]

(***************************************************************************)
(* struct Templates { templates: Option<Ramhorns>, theme: Option<Ramhorns> }*)
(* A loaded Ramhorns is the set of the names of its templates; a template  *)
(* is known by the set it comes from and its name.                         *)
(***************************************************************************)
None == [some |-> FALSE, names |-> {}]
Some(names) == [some |-> TRUE, names |-> names]

\* Templates::load: Ramhorns::from_folder fails on an unreadable folder, and
\* its error is returned by `?`.
Templates_load(config) ==
    LET local == config.template_dir
        themed == config.theme_templates
        templates == IF local.exists THEN Some(local.names) ELSE None
        theme == IF config.theme # ""
                 THEN (IF themed.exists THEN Some(themed.names) ELSE None)
                 ELSE None
    IN  IF local.exists /\ ~local.readable
        THEN [tag |-> "Err", error |-> "from_folder(TEMPLATE_DIR)"]
        ELSE IF config.theme # "" /\ themed.exists /\ ~themed.readable
        THEN [tag |-> "Err", error |-> "from_folder(theme_path)"]
        ELSE [tag |-> "Ok", value |-> [templates |-> templates, theme |-> theme]]

\* Option<&Ramhorns>::and_then(|t| t.get(name))
GetFrom(set, origin, name) ==
    IF set.some /\ name \in set.names
    THEN [some |-> TRUE, template |-> [origin |-> origin, name |-> name]]
    ELSE [some |-> FALSE, template |-> [origin |-> "", name |-> ""]]

\* A faulty variant: the theme is searched before the local templates.
Templates_get_theme_first(t, name) ==
    LET theme == GetFrom(t.theme, "theme", name)
        found == IF theme.some THEN theme ELSE GetFrom(t.templates, "templates", name)
    IN  IF found.some THEN [tag |-> "Ok", value |-> found.template]
        ELSE [tag |-> "Err", error |-> [kind |-> "MissingTemplate", name |-> name]]

Templates_get(t, name) ==
    LET local == GetFrom(t.templates, "templates", name)
        found == IF local.some THEN local ELSE GetFrom(t.theme, "theme", name)
    IN  IF found.some THEN [tag |-> "Ok", value |-> found.template]
        ELSE [tag |-> "Err", error |-> [kind |-> "MissingTemplate", name |-> name]]

(***************************************************************************)
(* Inputs.                                                                 *)
(***************************************************************************)
PathChars == {"a", "b", "/"}
PathTexts == TextsUpTo(PathChars, MaxPathLen)
FailAts == 0..MaxFailAt

\* The DateTime receivers: every day of three years at one time of day, and
\* one day at the combinations of the extreme and the sample times.
Years == 2019..2021
DateTimes ==
    {[SampleDate EXCEPT !.year = y, !.month = m, !.day = d] :
        y \in Years, m \in 1..12, d \in 1..31} \cup
    {[SampleDate EXCEPT !.hour = h, !.minute = mi, !.second = sec] :
        h \in {0, 7, 23}, mi \in {0, 8, 59}, sec \in {0, 9, 59}}
ValidDateTimes == {dt \in DateTimes : dt.day <= DaysInMonth(dt.year, dt.month)}
DateFieldNames ==
    {<<c>> : c \in {"y", "m", "d", "e", "H", "M", "S", "a", "b", "x", "Y", "h"}} \cup
    {<<>>, <<"y", "y">>, <<"m", "d">>}
DateFailAts == {0, 1}

\* The texts handed to the DateTime deserializer, each with the parts it is
\* written from.
DateParts ==
    {[text |-> <<"2", "0", "2", "0", "-", "0", "3", "-", "0", "5">>, year |-> 2020, month |-> 3, day |-> 5],
     [text |-> <<"2", "0", "2", "1", "-", "0", "1", "-", "0", "1">>, year |-> 2021, month |-> 1, day |-> 1],
     [text |-> <<"2", "0", "2", "0", "-", "1", "2", "-", "3", "1">>, year |-> 2020, month |-> 12, day |-> 31],
     [text |-> <<"2", "0", "2", "0", "-", "0", "2", "-", "2", "9">>, year |-> 2020, month |-> 2, day |-> 29],
     [text |-> <<"2", "0", "2", "1", "-", "0", "2", "-", "2", "9">>, year |-> 2021, month |-> 2, day |-> 29],
     [text |-> <<"2", "0", "2", "1", "-", "1", "3", "-", "0", "1">>, year |-> 2021, month |-> 13, day |-> 1],
     [text |-> <<"2", "0", "2", "1", "-", "0", "4", "-", "3", "1">>, year |-> 2021, month |-> 4, day |-> 31],
     [text |-> <<"2", "0", "2", "0", "-", "0", "3", "-", "0", "0">>, year |-> 2020, month |-> 3, day |-> 0]}
TimeParts ==
    {[text |-> <<"0", "7", ":", "0", "8", ":", "0", "9">>, hour |-> 7, minute |-> 8, second |-> 9],
     [text |-> <<"1", "0", ":", "2", "0", ":", "3", "0">>, hour |-> 10, minute |-> 20, second |-> 30],
     [text |-> <<"0", "0", ":", "3", "0", ":", "0", "0">>, hour |-> 0, minute |-> 30, second |-> 0],
     [text |-> <<"2", "3", ":", "5", "9", ":", "5", "9">>, hour |-> 23, minute |-> 59, second |-> 59],
     [text |-> <<"2", "3", ":", "5", "9", ":", "6", "0">>, hour |-> 23, minute |-> 59, second |-> 60],
     [text |-> <<"2", "4", ":", "0", "0", ":", "0", "0">>, hour |-> 24, minute |-> 0, second |-> 0],
     [text |-> <<"1", "2", ":", "6", "0", ":", "0", "0">>, hour |-> 12, minute |-> 60, second |-> 0]}
FracParts ==
    {[text |-> <<>>, nano |-> 0],
     [text |-> <<".", "5">>, nano |-> 500000000],
     [text |-> <<".", "1", "2", "3", "4", "5", "6", "7", "8", "9">>, nano |-> 123456789]}
OffsetParts ==
    {[text |-> <<>>, present |-> FALSE, seconds |-> 0],
     [text |-> <<"Z">>, present |-> TRUE, seconds |-> 0],
     [text |-> <<"+", "0", "2", ":", "0", "0">>, present |-> TRUE, seconds |-> 7200],
     [text |-> <<"-", "0", "5", ":", "3", "0">>, present |-> TRUE, seconds |-> -19800]}
JunkTexts ==
    {<<"n", "o", "t", "-", "a", "-", "d", "a", "t", "e">>,
     <<>>,
     <<"2", "0", "2", "0", "-", "0", "3", "-", "0", "5", "T">>,
     <<"T", "0", "7", ":", "0", "8", ":", "0", "9">>,
     <<"2", "0", "2", "0", "/", "0", "3", "/", "0", "5">>,
     <<"2", "0", "2", "0", "-", "0", "3", "-", "0", "5", "T", "0", "7", ":", "0", "8">>}
Midnight == [text |-> <<>>, hour |-> 0, minute |-> 0, second |-> 0]
NoFrac == [text |-> <<>>, nano |-> 0]
NoOffset == [text |-> <<>>, present |-> FALSE, seconds |-> 0]
DateTexts ==
    {[v |-> d.text, form |-> "date", date |-> d, time |-> Midnight, frac |-> NoFrac,
      off |-> NoOffset] : d \in DateParts} \cup
    {[v |-> d.text \o sep \o t.text \o f.text \o o.text,
      form |-> (IF sep = <<"T">> THEN "T" ELSE "space"),
      date |-> d, time |-> t, frac |-> f, off |-> o] :
        d \in DateParts, sep \in {<<"T">>, <<" ">>}, t \in TimeParts, f \in FracParts,
        o \in OffsetParts} \cup
    {[v |-> j, form |-> "junk", date |-> CHOOSE d \in DateParts : d.year = 2020 /\ d.day = 5,
      time |-> Midnight, frac |-> NoFrac, off |-> NoOffset] : j \in JunkTexts}
DeserializerInputs ==
    {[key |-> TRUE, input |-> i] : i \in DateTexts} \cup
    {[key |-> FALSE, input |-> i] : i \in {x \in DateTexts : x.form = "date"}}

\* The template folders: absent, unreadable, or holding a set of templates.
TemplateNames == {"page", "list"}
Folders ==
    {[exists |-> FALSE, readable |-> FALSE, names |-> {}],
     [exists |-> TRUE, readable |-> FALSE, names |-> {}]} \cup
    {[exists |-> TRUE, readable |-> TRUE, names |-> n] : n \in SUBSET TemplateNames}
Configs ==
    {[template_dir |-> l, theme |-> t, theme_templates |-> f] :
        l \in Folders, t \in {"", "theme"}, f \in Folders}
RequestedNames == TemplateNames \cup {"feed"}

Keys == {<<"x">>, <<"y">>}
FieldNames == Keys \cup {<<"z">>, <<"x", "y">>}
Scalars ==
    {Number(0), Number(1), String(<<>>), String(<<"<", "s">>), DateTimeValue(SampleDate)}
Level0 == Scalars \cup {List(<<>>), Map(<<>>)}
Elements ==
    Level0 \cup {Map([k \in {<<"x">>} |-> Number(1)]),
                 Map([k \in {<<"y">>} |-> String(<<"<", "s">>)]),
                 List(<<Number(0), Number(1)>>)}
ListsOf(S) == {List(vec) : vec \in UNION {[1..k -> S] : k \in 1..MaxListLen}}
MapsOf(S) == {Map(m) : m \in UNION {[K -> S] : K \in (SUBSET Keys) \ {{}}}}
AnyValues == Elements \cup ListsOf(Elements) \cup MapsOf(Elements)

\* The context stacks a caller hands in with a section.
RootContext == Map([k \in {<<"r">>} |-> Number(1)])
Sections == {<<>>, <<RootContext>>}

NoArgs == [failAt |-> 0]

Init ==
    /\ pc = "ready"
    /\ op = "none"
    /\ args = NoArgs
    /\ ret = [tag |-> "None"]
    /\ enc = NewEncoder(0)
    /\ \/ kind = "Ancestors" /\ self \in PathTexts
       \/ kind = "Any" /\ self \in AnyValues
       \/ kind = "DateTime" /\ self \in ValidDateTimes
       \/ kind = "Deserializer" /\ self \in DeserializerInputs
       \/ kind = "Config" /\ self \in Configs

Finish(o, a, r, e) ==
    /\ pc' = "done"
    /\ op' = o
    /\ args' = a
    /\ ret' = r
    /\ enc' = e
    /\ UNCHANGED <<kind, self>>

CallAncestorsIsTruthy ==
    /\ pc = "ready" /\ kind = "Ancestors"
    /\ Finish("Ancestors::is_truthy", NoArgs,
              [tag |-> "Bool", b |-> Ancestors_is_truthy(self)], NewEncoder(0))

CallAncestorsRenderEscaped ==
    /\ pc = "ready" /\ kind = "Ancestors"
    /\ \E f \in FailAts :
         LET e == Ancestors_render_escaped(self, NewEncoder(f))
         IN  Finish("Ancestors::render_escaped", [failAt |-> f], UnitResult(e), e)

CallAncestorsRenderUnescaped ==
    /\ pc = "ready" /\ kind = "Ancestors"
    /\ \E f \in FailAts :
         LET e == Ancestors_render_unescaped(self, NewEncoder(f))
         IN  Finish("Ancestors::render_unescaped", [failAt |-> f], UnitResult(e), e)

CallAncestorsRenderSection ==
    /\ pc = "ready" /\ kind = "Ancestors"
    /\ \E f \in FailAts, sec \in Sections :
         LET e == Ancestors_render_section(self, sec, NewEncoder(f))
         IN  Finish("Ancestors::render_section", [failAt |-> f, section |-> sec],
                    UnitResult(e), e)

CallAnyIsTruthy ==
    /\ pc = "ready" /\ kind = "Any"
    /\ Finish("Any::is_truthy", NoArgs,
              [tag |-> "Bool", b |-> Any_is_truthy(self)], NewEncoder(0))

CallAnyRenderEscaped ==
    /\ pc = "ready" /\ kind = "Any"
    /\ \E f \in FailAts :
         LET e == Any_render_escaped(self, NewEncoder(f))
         IN  Finish("Any::render_escaped", [failAt |-> f], UnitResult(e), e)

CallAnyRenderUnescaped ==
    /\ pc = "ready" /\ kind = "Any"
    /\ \E f \in FailAts :
         LET e == Any_render_unescaped(self, NewEncoder(f))
         IN  Finish("Any::render_unescaped", [failAt |-> f], UnitResult(e), e)

CallAnyRenderSection ==
    /\ pc = "ready" /\ kind = "Any"
    /\ \E f \in FailAts, sec \in Sections :
         LET e == Any_render_section(self, sec, NewEncoder(f))
         IN  Finish("Any::render_section", [failAt |-> f, section |-> sec],
                    UnitResult(e), e)

CallAnyRenderFieldEscaped ==
    /\ pc = "ready" /\ kind = "Any"
    /\ \E f \in FailAts, name \in FieldNames :
         LET r == Any_render_field_escaped(self, name, NewEncoder(f))
         IN  Finish("Any::render_field_escaped", [failAt |-> f, name |-> name],
                    FoundResult(r), r.enc)

CallAnyRenderFieldUnescaped ==
    /\ pc = "ready" /\ kind = "Any"
    /\ \E f \in FailAts, name \in FieldNames :
         LET r == Any_render_field_unescaped(self, name, NewEncoder(f))
         IN  Finish("Any::render_field_unescaped", [failAt |-> f, name |-> name],
                    FoundResult(r), r.enc)

CallAnyRenderFieldSection ==
    /\ pc = "ready" /\ kind = "Any"
    /\ \E f \in FailAts, name \in FieldNames, sec \in Sections :
         LET r == Any_render_field_section(self, name, sec, NewEncoder(f))
         IN  Finish("Any::render_field_section",
                    [failAt |-> f, name |-> name, section |-> sec], FoundResult(r), r.enc)

CallAnyRenderFieldInverse ==
    /\ pc = "ready" /\ kind = "Any"
    /\ \E f \in FailAts, name \in FieldNames, sec \in Sections :
         LET r == Any_render_field_inverse(self, name, sec, NewEncoder(f))
         IN  Finish("Any::render_field_inverse",
                    [failAt |-> f, name |-> name, section |-> sec], FoundResult(r), r.enc)

CallDateTimeRenderSection ==
    /\ pc = "ready" /\ kind = "DateTime"
    /\ \E f \in DateFailAts, sec \in Sections :
         LET e == DateTime_render_section(self, sec, NewEncoder(f))
         IN  Finish("DateTime::render_section", [failAt |-> f, section |-> sec],
                    UnitResult(e), e)

CallDateTimeRenderFieldEscaped ==
    /\ pc = "ready" /\ kind = "DateTime"
    /\ \E f \in DateFailAts, name \in DateFieldNames :
         LET r == DateTime_render_field_escaped(self, name, NewEncoder(f))
         IN  Finish("DateTime::render_field_escaped", [failAt |-> f, name |-> name],
                    DateFoundResult(r), r.enc)

CallDateTimeRenderFieldUnescaped ==
    /\ pc = "ready" /\ kind = "DateTime"
    /\ \E f \in DateFailAts, name \in DateFieldNames :
         LET r == DateTime_render_field_unescaped(self, name, NewEncoder(f))
         IN  Finish("DateTime::render_field_unescaped", [failAt |-> f, name |-> name],
                    DateFoundResult(r), r.enc)

\* DateTime::deserialize: on success the program holds the DateTime.
CallDeserialize ==
    /\ pc = "ready" /\ kind = "Deserializer"
    /\ LET r == visit_map(self.key, self.input.v)
       IN  /\ op' = "DateTime::deserialize"
           /\ args' = self
           /\ ret' = r
           /\ enc' = NewEncoder(0)
           /\ IF r.tag = "Ok"
              THEN kind' = "DateTime" /\ self' = r.value /\ pc' = "ready"
              ELSE pc' = "done" /\ UNCHANGED <<kind, self>>

\* Templates::load: on success the program holds the Templates.
CallTemplatesLoad ==
    /\ pc = "ready" /\ kind = "Config"
    /\ LET r == Templates_load(self)
       IN  /\ op' = "Templates::load"
           /\ args' = self
           /\ ret' = r
           /\ enc' = NewEncoder(0)
           /\ IF r.tag = "Ok"
              THEN kind' = "Templates" /\ self' = r.value /\ pc' = "ready"
              ELSE pc' = "done" /\ UNCHANGED <<kind, self>>

CallTemplatesGet ==
    /\ pc = "ready" /\ kind = "Templates"
    /\ \E name \in RequestedNames :
         Finish("Templates::get", [name |-> name], Templates_get(self, name), NewEncoder(0))

Next ==
    \/ CallDeserialize
    \/ CallTemplatesLoad
    \/ CallTemplatesGet
    \/ CallDateTimeRenderSection
    \/ CallDateTimeRenderFieldEscaped
    \/ CallDateTimeRenderFieldUnescaped
    \/ CallAnyIsTruthy
    \/ CallAnyRenderEscaped
    \/ CallAnyRenderUnescaped
    \/ CallAnyRenderSection
    \/ CallAnyRenderFieldEscaped
    \/ CallAnyRenderFieldUnescaped
    \/ CallAnyRenderFieldSection
    \/ CallAnyRenderFieldInverse
    \/ CallAncestorsIsTruthy
    \/ CallAncestorsRenderEscaped
    \/ CallAncestorsRenderUnescaped
    \/ CallAncestorsRenderSection

Spec == Init /\ [][Next]_vars

(***************************************************************************)
(* Properties of Ancestors (PathSegments).                                 *)
(***************************************************************************)
IsAncestorsOp == kind = "Ancestors" /\ pc = "done"

\* The k-th smallest element of a finite set of integers.
KthSmallest(S, k) == CHOOSE x \in S : Cardinality({y \in S : y <= x}) = k

\* The contexts the logged section renders pushed on top of the given section.
RenderedSegments == [j \in 1..Len(enc.log) |-> enc.log[j].data[Len(enc.log[j].data)]]

AllRendersOnSection ==
    \A j \in 1..Len(enc.log) :
        /\ enc.log[j].call = "render"
        /\ Len(enc.log[j].data) = Len(args.section) + 1
        /\ SubSeq(enc.log[j].data, 1, Len(args.section)) = args.section

\* n >= 2 non-empty components joined by single separators.
JoinedComponents(s) ==
    /\ s # <<>>
    /\ ~is_separator(s[1])
    /\ ~is_separator(s[Len(s)])
    /\ \A i \in 1..(Len(s) - 1) : ~(is_separator(s[i]) /\ is_separator(s[i + 1]))
    /\ contains_separator(s)

\* Offsets just past the end of each component of a text of joined components.
ComponentEnds(s) ==
    {i \in 1..Len(s) : ~is_separator(s[i]) /\ (i = Len(s) \/ is_separator(s[i + 1]))}

\* Offset of the first byte of the component that ends at offset e.
ComponentStart(s, e) ==
    CHOOSE p \in 0..(e - 1) :
        /\ \A i \in (p + 1)..e : ~is_separator(s[i])
        /\ (p = 0 \/ is_separator(s[p]))

\* C1: render_section on a text of n >= 2 non-empty components joined by
\* single separators renders the body exactly n times, the k-th time with
\* Segment{name: k-th component, full: the text up to and including it}.
C1_OneIterationPerComponent ==
    (IsAncestorsOp /\ op = "Ancestors::render_section" /\ args.failAt = 0
        /\ JoinedComponents(self))
    => LET ends == ComponentEnds(self)
       IN  /\ Len(enc.log) = Cardinality(ends)
           /\ AllRendersOnSection
           /\ \A k \in 1..Len(enc.log) :
                LET e == KthSmallest(ends, k)
                IN  RenderedSegments[k] =
                        Segment(Slice(self, ComponentStart(self, e), e), Slice(self, 0, e))

\* Offsets (0-based) of the separators of a text.
SeparatorOffsets(s) == {i \in 0..(Len(s) - 1) : is_separator(s[i + 1])}

\* The iterations the separator scan of the text yields, in order.
ScanSegments(s) ==
    LET seps == SeparatorOffsets(s)
        n == Cardinality(seps)
        at(j) == KthSmallest(seps, j)
        prev(j) == IF j = 1 THEN 0 ELSE KthSmallest(seps, j - 1) + 1
    IN  IF s = <<>> THEN <<>>
        ELSE IF n = 0 THEN <<Segment(s, s)>>
        ELSE [j \in 1..n |-> Segment(Slice(s, prev(j), at(j)), Slice(s, 0, at(j)))]

IsSuffix(t, s) == Len(t) <= Len(s) /\ SubSeq(s, Len(s) - Len(t) + 1, Len(s)) = t
IsPrefix(t, s) == Len(t) <= Len(s) /\ SubSeq(s, 1, Len(t)) = t

DirectRenderCalls(s, textCall) ==
    <<[call |-> "write_unescaped", data |-> <<"/">>, ok |-> TRUE],
      [call |-> textCall, data |-> s, ok |-> TRUE]>>

\* C7: direct rendering emits output exactly when the text is non-empty
\* (is_truthy): nothing for the empty text, otherwise one unescaped "/"
\* followed by the whole text, escaped by render_escaped and raw by
\* render_unescaped.
C7_DirectRender ==
    /\ (IsAncestorsOp /\ op = "Ancestors::is_truthy") => ret.b = (Len(self) > 0)
    /\ (IsAncestorsOp /\ op \in {"Ancestors::render_escaped", "Ancestors::render_unescaped"})
       => LET textCall == IF op = "Ancestors::render_escaped"
                          THEN "write_escaped" ELSE "write_unescaped"
          IN  /\ (enc.log # <<>>) = Ancestors_is_truthy(self)
              /\ (self = <<>>) => ret.tag = "Ok"
              /\ (self # <<>> /\ args.failAt = 0)
                 => enc.log = DirectRenderCalls(self, textCall) /\ ret.tag = "Ok"
              /\ \A j \in 1..Len(enc.log) :
                    /\ enc.log[j].call = DirectRenderCalls(self, textCall)[j].call
                    /\ enc.log[j].data = DirectRenderCalls(self, textCall)[j].data

C7_Witness ==
    /\ IsAncestorsOp /\ op = "Ancestors::render_escaped"
    /\ self = <<"a", "/", "b", "/", "b">>
    /\ enc.log = <<[call |-> "write_unescaped", data |-> <<"/">>, ok |-> TRUE],
                   [call |-> "write_escaped", data |-> self, ok |-> TRUE]>>

\* The number of sink calls the operation makes when none fails.
AncestorsCallsNeeded ==
    IF op = "Ancestors::render_section" THEN Len(ScanSegments(self))
    ELSE IF self = <<>> THEN 0 ELSE 2

\* C10: when the sink fails during a PathSegments render, the operation
\* stops at that call and returns the sink's error: the failed call is the
\* last one made, nothing is retried and nothing is written after it.
C10_StopsAtFirstSinkFailure ==
    (IsAncestorsOp /\ op # "Ancestors::is_truthy")
    => /\ \A j \in 1..(Len(enc.log) - 1) : enc.log[j].ok
       /\ (ret.tag = "Err") = (enc.log # <<>> /\ ~enc.log[Len(enc.log)].ok)
       /\ (args.failAt > 0 /\ AncestorsCallsNeeded >= args.failAt)
          => /\ ret.tag = "Err"
             /\ Len(enc.log) = args.failAt
       /\ (args.failAt = 0 \/ AncestorsCallsNeeded < args.failAt) => ret.tag = "Ok"

C10_Witness ==
    /\ IsAncestorsOp /\ op = "Ancestors::render_section" /\ args.failAt = 2
    /\ Cardinality(SeparatorOffsets(self)) = 3
    /\ ret.tag = "Err" /\ Len(enc.log) = 2 /\ ~enc.log[2].ok

C10_WitnessDirect ==
    /\ IsAncestorsOp /\ op = "Ancestors::render_escaped" /\ args.failAt = 1
    /\ self # <<>> /\ ret.tag = "Err" /\ Len(enc.log) = 1

(***************************************************************************)
(* Properties of Any (DynamicValue).                                       *)
(***************************************************************************)
IsAnyOp == kind = "Any" /\ pc = "done"

\* C2: is_truthy is true exactly for a List with at least one element and a
\* Map with at least one entry; false for every Number, String and DateTime.
C2_TruthyOnlyNonEmptyCollections ==
    (IsAnyOp /\ op = "Any::is_truthy")
    => /\ ret.b = \/ (self.tag = "List" /\ Len(self.vec) >= 1)
                  \/ (self.tag = "Map" /\ Cardinality(DOMAIN self.map) >= 1)
       /\ self.tag \in {"Number", "String", "DateTime"} => ret.b = FALSE

C2_Witness ==
    /\ IsAnyOp /\ op = "Any::is_truthy"
    /\ self = Number(1) /\ ret.b = FALSE

FieldOps ==
    {"Any::render_field_escaped", "Any::render_field_unescaped",
     "Any::render_field_section", "Any::render_field_inverse"}

\* What the lookup renders for the value v mapped to the name, on a sink
\* that accepts every call.
MappedValueCalls(v) ==
    CASE op = "Any::render_field_escaped" -> Any_render_escaped(v, NewEncoder(0)).log
      [] op = "Any::render_field_unescaped" -> Any_render_unescaped(v, NewEncoder(0)).log
      [] op = "Any::render_field_section" ->
            Any_render_section(v, args.section, NewEncoder(0)).log
      [] op = "Any::render_field_inverse" ->
            Any_render_inverse(v, args.section, NewEncoder(0)).log

\* C3: each of the four field lookups reports found only for a Map that holds
\* the name as a key, and then renders the mapped value; for a Map without the
\* key and for every Number, String, DateTime and List it reports not-found
\* and makes no call on the sink.
C3_OnlyMapResolvesFields ==
    (IsAnyOp /\ op \in FieldOps)
    => LET hasKey == self.tag = "Map" /\ args.name \in DOMAIN self.map
       IN  /\ (ret.tag = "Ok" /\ ret.found) => hasKey
           /\ ~hasKey => (ret = [tag |-> "Ok", found |-> FALSE] /\ enc.log = <<>>)
           /\ (hasKey /\ args.failAt = 0)
              => /\ ret = [tag |-> "Ok", found |-> TRUE]
                 /\ enc.log = MappedValueCalls(self.map[args.name])
           /\ hasKey => ret # [tag |-> "Ok", found |-> FALSE]

C3_Witness ==
    /\ IsAnyOp /\ op = "Any::render_field_escaped"
    /\ self = Map([k \in {<<"x">>} |-> Number(1)])
    /\ args.name = <<"x">> /\ args.failAt = 0
    /\ ret = [tag |-> "Ok", found |-> TRUE]
    /\ enc.log = <<[call |-> "write_unescaped", data |-> <<"1">>, ok |-> TRUE]>>

C3_WitnessNotFound ==
    /\ IsAnyOp /\ op = "Any::render_field_section"
    /\ self = List(<<Map([k \in {<<"x">>} |-> Number(1)])>>)
    /\ args.name = <<"x">>
    /\ ret = [tag |-> "Ok", found |-> FALSE] /\ enc.log = <<>>

RenderCall(stack) == [call |-> "render", data |-> stack, ok |-> TRUE]

IsScalar(v) == v.tag \in {"Number", "String", "DateTime"}

\* C8 as stated: a List renders the body once per element, in order, with
\* that element as the nested context (none for the empty List); a non-empty
\* Map once with the map as nested context; a Number, String or DateTime once
\* with the context stack unchanged (so a scalar element of a List is taken
\* to satisfy the claim pushed or not).
C8_OncePerElementWithElementAsContext ==
    (IsAnyOp /\ op = "Any::render_section" /\ args.failAt = 0)
    => CASE self.tag = "List" ->
              /\ Len(enc.log) = Len(self.vec)
              /\ \A k \in 1..Len(enc.log) :
                    \/ enc.log[k] = RenderCall(Append(args.section, self.vec[k]))
                    \/ IsScalar(self.vec[k]) /\ enc.log[k] = RenderCall(args.section)
         [] self.tag = "Map" ->
              DOMAIN self.map # {} => enc.log = <<RenderCall(Append(args.section, self))>>
         [] OTHER -> enc.log = <<RenderCall(args.section)>>

\* The values that are no List reached from v through nested Lists, in order.
RECURSIVE Leaves(_)
RECURSIVE LeavesOfVec(_, _)
LeavesOfVec(vec, k) == IF k > Len(vec) THEN <<>> ELSE Leaves(vec[k]) \o LeavesOfVec(vec, k + 1)
Leaves(v) == IF v.tag = "List" THEN LeavesOfVec(v.vec, 1) ELSE <<v>>

RendersBody(v) == v.tag # "Map" \/ DOMAIN v.map # {}

\* C8 amended: a List runs each element's own render_section in list order,
\* so the body is rendered once per non-List value reached through the
\* (possibly nested) lists, except empty Maps: with the Map as the nested
\* context for a non-empty Map, with the context stack unchanged for a
\* Number, String or DateTime.  An empty List or Map renders nothing.
C8_SectionPerLeaf ==
    (IsAnyOp /\ op = "Any::render_section")
    => LET leaves == SelectSeq(Leaves(self), RendersBody)
           stack(v) == IF v.tag = "Map" THEN Append(args.section, v) ELSE args.section
       IN  /\ Len(enc.log) <= Len(leaves)
           /\ args.failAt = 0 => Len(enc.log) = Len(leaves)
           /\ \A j \in 1..Len(enc.log) :
                /\ enc.log[j].call = "render"
                /\ enc.log[j].data = stack(leaves[j])

C8_Witness ==
    /\ IsAnyOp /\ op = "Any::render_section" /\ args.failAt = 0
    /\ self = List(<<Map([k \in {<<"x">>} |-> Number(1)]),
                     Map([k \in {<<"y">>} |-> String(<<"<", "s">>)])>>)
    /\ args.section = <<RootContext>>
    /\ enc.log = <<RenderCall(<<RootContext, self.vec[1]>>),
                   RenderCall(<<RootContext, self.vec[2]>>)>>

C8_WitnessScalarElement ==
    /\ IsAnyOp /\ op = "Any::render_section" /\ args.failAt = 0
    /\ self = List(<<Number(1), List(<<>>)>>)
    /\ enc.log = <<RenderCall(args.section)>>

(***************************************************************************)
(* Properties of DateTime (DateValue).                                     *)
(***************************************************************************)
IsDateTimeOp == kind = "DateTime" /\ pc = "done"

AllDigits(t) == t # <<>> /\ \A i \in 1..Len(t) : IsDigit(t[i])

\* t is n as a plain integer: its digits, with no padding.
IsPlainInteger(t, n) ==
    /\ AllDigits(t) /\ TextValue(t) = n
    /\ (Len(t) > 1 => t[1] # "0")

\* t is n as a two-digit zero-padded decimal.
IsTwoDigit(t, n) == AllDigits(t) /\ Len(t) = 2 /\ TextValue(t) = n

\* Zeller's congruence: the day of the week, 0 for Sunday.
ZellerFromSunday(y, m, d) ==
    LET mm == IF m <= 2 THEN m + 12 ELSE m
        yy == IF m <= 2 THEN y - 1 ELSE y
        K == yy % 100
        J == yy \div 100
        h == (d + (13 * (mm + 1)) \div 5 + K + K \div 4 + J \div 4 + 5 * J) % 7
    IN  (h + 6) % 7

WeekdayNames ==
    <<"Sun", "Mon", "Tue", "Wed", "Thu", "Fri", "Sat">>
MonthNames ==
    <<"Jan", "Feb", "Mar", "Apr", "May", "Jun", "Jul", "Aug", "Sep", "Oct", "Nov", "Dec">>

\* The three letters of a name, as text.
Letters(abbr) ==
    CASE abbr = "Sun" -> <<"S", "u", "n">> [] abbr = "Mon" -> <<"M", "o", "n">>
      [] abbr = "Tue" -> <<"T", "u", "e">> [] abbr = "Wed" -> <<"W", "e", "d">>
      [] abbr = "Thu" -> <<"T", "h", "u">> [] abbr = "Fri" -> <<"F", "r", "i">>
      [] abbr = "Sat" -> <<"S", "a", "t">> [] abbr = "Jan" -> <<"J", "a", "n">>
      [] abbr = "Feb" -> <<"F", "e", "b">> [] abbr = "Mar" -> <<"M", "a", "r">>
      [] abbr = "Apr" -> <<"A", "p", "r">> [] abbr = "May" -> <<"M", "a", "y">>
      [] abbr = "Jun" -> <<"J", "u", "n">> [] abbr = "Jul" -> <<"J", "u", "l">>
      [] abbr = "Aug" -> <<"A", "u", "g">> [] abbr = "Sep" -> <<"S", "e", "p">>
      [] abbr = "Oct" -> <<"O", "c", "t">> [] abbr = "Nov" -> <<"N", "o", "v">>
      [] abbr = "Dec" -> <<"D", "e", "c">>

DateLetters == {"y", "m", "d", "e", "H", "M", "S", "a", "b"}

\* The text t is what the field letter c of the date dt is to emit.
IsDateField(dt, c, t) ==
    CASE c = "y" -> IsPlainInteger(t, dt.year)
      [] c = "m" -> IsTwoDigit(t, dt.month)
      [] c = "d" -> IsTwoDigit(t, dt.day)
      [] c = "e" -> IsPlainInteger(t, dt.day)
      [] c = "H" -> IsTwoDigit(t, dt.hour)
      [] c = "M" -> IsTwoDigit(t, dt.minute)
      [] c = "S" -> IsTwoDigit(t, dt.second)
      [] c = "a" -> t = Letters(WeekdayNames[ZellerFromSunday(dt.year, dt.month, dt.day) + 1])
      [] c = "b" -> t = Letters(MonthNames[dt.month])

\* C4: escaped and unescaped lookup on a valid DateValue behave alike: a
\* one-character name among y m d e H M S a b is found and emits the year and
\* the unpadded day as plain integers, month, day, hour, minute and second as
\* two zero-padded digits, the weekday and month abbreviations; no table is
\* indexed out of bounds; every other name is not found and emits nothing.
C4_DateFieldLookup ==
    (IsDateTimeOp /\ op \in {"DateTime::render_field_escaped",
                             "DateTime::render_field_unescaped"})
    => /\ ret.tag # "Panic"
       /\ IF Len(args.name) = 1 /\ args.name[1] \in DateLetters
          THEN /\ Len(enc.log) = 1
               /\ enc.log[1].call = "write_unescaped"
               /\ IsDateField(self, args.name[1], enc.log[1].data)
               /\ args.failAt = 0 => ret = [tag |-> "Ok", found |-> TRUE]
               /\ args.failAt = 1 => ret = [tag |-> "Err"]
          ELSE ret = [tag |-> "Ok", found |-> FALSE] /\ enc.log = <<>>

C4_Witness ==
    /\ IsDateTimeOp /\ op = "DateTime::render_field_unescaped"
    /\ self = SampleDate /\ args.name = <<"a">>
    /\ ret = [tag |-> "Ok", found |-> TRUE]
    /\ enc.log = <<[call |-> "write_unescaped", data |-> <<"T", "h", "u">>, ok |-> TRUE]>>

C4_WitnessLongName ==
    /\ IsDateTimeOp /\ op = "DateTime::render_field_escaped"
    /\ args.name = <<"y", "y">> /\ ret = [tag |-> "Ok", found |-> FALSE]

(***************************************************************************)
(* Properties of Templates.                                                *)
(***************************************************************************)
\* C6: get returns the local template of the name whenever the local set is
\* loaded and holds it, else the theme's when the theme set is loaded and
\* holds it, and fails with MissingTemplate carrying the name exactly when
\* neither loaded set holds it.
C6_LocalThenThemeElseMissing ==
    (kind = "Templates" /\ pc = "done" /\ op = "Templates::get")
    => LET inLocal == self.templates.some /\ args.name \in self.templates.names
           inTheme == self.theme.some /\ args.name \in self.theme.names
       IN  /\ inLocal
              => ret = [tag |-> "Ok", value |-> [origin |-> "templates", name |-> args.name]]
           /\ (~inLocal /\ inTheme)
              => ret = [tag |-> "Ok", value |-> [origin |-> "theme", name |-> args.name]]
           /\ (ret.tag = "Err") = (~inLocal /\ ~inTheme)
           /\ ret.tag = "Err"
              => ret.error = [kind |-> "MissingTemplate", name |-> args.name]

C6_Witness ==
    /\ kind = "Templates" /\ pc = "done" /\ op = "Templates::get"
    /\ self.templates.some /\ self.theme.some
    /\ args.name = "page"
    /\ "page" \in self.templates.names /\ "page" \in self.theme.names
    /\ ret = [tag |-> "Ok", value |-> [origin |-> "templates", name |-> "page"]]

C6_WitnessNothingLoaded ==
    /\ kind = "Templates" /\ pc = "done" /\ op = "Templates::get"
    /\ ~self.templates.some /\ ~self.theme.some
    /\ ret = [tag |-> "Err", error |-> [kind |-> "MissingTemplate", name |-> "feed"]]

(***************************************************************************)
(* Properties of the DateTime deserializer.                                *)
(***************************************************************************)
IsDeserialized == op = "DateTime::deserialize" /\ args.key

\* t occurs in s as a contiguous run.
Contains(s, t) == \E i \in 0..(Len(s) - Len(t)) : SubSeq(s, i + 1, i + Len(t)) = t

PartsValid(i) ==
    /\ i.date.month \in 1..12
    /\ i.date.day \in 1..31
    /\ ~(i.date.month \in {4, 6, 9, 11} /\ i.date.day = 31)
    /\ ~(i.date.month = 2 /\ i.date.day > 29)
    /\ ~(i.date.month = 2 /\ i.date.day = 29 /\ ~IsLeapYear(i.date.year))
    /\ i.time.hour <= 23 /\ i.time.minute <= 59 /\ i.time.second <= 60

\* The date and time the parts of an input spell, as written.
AsWritten(i) ==
    [year |-> i.date.year, month |-> i.date.month, day |-> i.date.day,
     hour |-> i.time.hour, minute |-> i.time.minute,
     second |-> IF i.time.second = 60 THEN 59 ELSE i.time.second,
     nano |-> IF i.time.second = 60 THEN 1000000000 + i.frac.nano ELSE i.frac.nano]

\* Seconds from 1970-01-01T00:00:00 to a date and time without leap second.
SecondsOf(dt) ==
    DaysFromCivil(dt.year, dt.month, dt.day) * 86400
    + dt.hour * 3600 + dt.minute * 60 + dt.second

\* C5: construction from text tries (1) YYYY-MM-DDTHH:MM:SS[.frac], (2) the
\* bare date taken at 00:00:00, (3) YYYY-MM-DD HH:MM:SS[.frac], (4) the
\* offset-qualified date-time, whose result is the same instant in UTC, in
\* this order and returns the first that accepts; when none accepts,
\* construction fails and the error message contains the text verbatim.
C5_FirstAcceptingFormat ==
    IsDeserialized
    => LET i == args.input
           first == IF ParseNaiveDateTime(i.v).ok THEN ParseNaiveDateTime(i.v)
                    ELSE IF ParseNaiveDate(i.v).ok THEN ParseNaiveDate(i.v)
                    ELSE IF ParseSpaceSeparated(i.v).ok THEN ParseSpaceSeparated(i.v)
                    ELSE ParseWithOffset(i.v)
       IN  /\ first.ok => ret = [tag |-> "Ok", value |-> first.value]
           /\ ~first.ok => ret.tag = "Err"
           /\ ret.tag = "Err"
              => /\ Contains(ret.message, i.v)
                 /\ pc = "done" /\ kind = "Deserializer"
           /\ ret.tag = "Ok" => (kind = "DateTime" /\ self = ret.value)
           /\ (i.form \in {"T", "space"} /\ ~i.off.present /\ PartsValid(i))
              => ret = [tag |-> "Ok", value |-> AsWritten(i)]
           /\ (i.form = "date" /\ PartsValid(i))
              => ret = [tag |-> "Ok", value |-> AsWritten(i)]
           /\ (i.form = "T" /\ i.off.present /\ PartsValid(i))
              => /\ ret.tag = "Ok"
                 /\ i.time.second < 60
                    => /\ SecondsOf(ret.value) = SecondsOf(AsWritten(i)) - i.off.seconds
                       /\ ret.value.nano = i.frac.nano
                       /\ ret.value.day <= DaysInMonth(ret.value.year, ret.value.month)
           /\ (i.form = "junk" \/ ~PartsValid(i)) => ret.tag = "Err"

C5_Witness ==
    /\ IsDeserialized /\ pc = "ready"
    /\ args.input.v = <<"2", "0", "2", "1", "-", "0", "1", "-", "0", "1", "T", "1", "0", ":",
                        "2", "0", ":", "3", "0", "+", "0", "2", ":", "0", "0">>
    /\ ret = [tag |-> "Ok",
              value |-> [year |-> 2021, month |-> 1, day |-> 1, hour |-> 8, minute |-> 20,
                         second |-> 30, nano |-> 0]]

C5_WitnessFailure ==
    /\ IsDeserialized /\ pc = "done"
    /\ args.input.v = <<"n", "o", "t", "-", "a", "-", "d", "a", "t", "e">>
    /\ ret.tag = "Err"
    /\ Contains(ret.message, args.input.v)

====
